---- MODULE Spec2Model ----
(***************************************************************************)
(* Model of the trial activation page (ActivateTrialPage): two remote      *)
(* queries, the gate resolver effect, the render branches and the          *)
(* start-trial handler.                                                    *)
(***************************************************************************)
EXTENDS Integers, Sequences, FiniteSets, TLC

\* ------------------------------------------------------------------ bounds
\* Number of value-changing refetch deliveries the query layer makes.
MaxRevalidations == 1
\* Number of Start Trial requests the page issues.
MaxRequests == 2

\* Number of handleFileUpload / handleAIGenerate calls made on the picker.
MaxInvocations == 2
\* Number of Apply clicks on the picker.
MaxApplies == 1

\* Number of times the custom_agents flag changes under AppProfilesPage.
MaxFlagChanges == 3

\* --------------------------------------------------------------- JS values
\* `undefined` data of a query that holds no data.
Undefined == [undefined |-> TRUE]
\* `undefined` / missing string property.
UndefinedString == "<undefined>"
\* subscription.tier === null
NullTier == "<null>"

\* JS truthiness of a string-or-undefined value.
Truthy(v) == v # UndefinedString /\ v # ""

\* ----------------------------------------------------------- input domains
TierNames == {"none", "free", "pro"}
SubscriptionSnapshots == [tier : {NullTier} \cup TierNames]
TrialStatuses == {UndefinedString, "none", "active", "used", "expired", "cancelled", "converted"}
TrialSnapshots == [has_trial : BOOLEAN, trial_status : TrialStatuses]
Snapshots(q) == IF q = "subscription" THEN SubscriptionSnapshots ELSE TrialSnapshots
\* One account per gate outcome, for the runs that exercise the start-trial handler.
SampleSnapshots(q) ==
    IF q = "subscription"
    THEN {[tier |-> NullTier], [tier |-> "pro"]}
    ELSE {[has_trial |-> FALSE, trial_status |-> UndefinedString],
          [has_trial |-> TRUE, trial_status |-> "active"],
          [has_trial |-> TRUE, trial_status |-> "used"]}
\* The account that is offered the trial.
OfferSnapshots(q) ==
    IF q = "subscription"
    THEN {[tier |-> NullTier]}
    ELSE {[has_trial |-> FALSE, trial_status |-> UndefinedString]}
QueryNames == {"subscription", "trial"}

VARIABLES
    query,          \* query[q] = [status, data, ref]: state of useSubscription / useTrialStatus
    revalidations,  \* value-changing refetch deliveries so far
    view,           \* what the last render returned: "none" | "skeleton" | "offer"
    buttonDisabled, \* disabled attribute of the Start button as last rendered
    lastDeps,       \* dependency array of the last run of the gate effect
    rerendered,     \* a render with an unchanged dependency array followed that run
    page,           \* "mounted" | "left" (route changed) | "unloaded" (document replaced)
    pushes,         \* router.push calls issued by the gate effect
    requests,       \* Start Trial requests issued, in order: [state, body, result]
    hrefs,          \* assignments to window.location.href: [req, url]
    toasts,         \* toast.error calls: [req, message]
    origin          \* window.location.origin of the document

queryVars == <<query, revalidations>>
renderVars == <<view, buttonDisabled, lastDeps, rerendered>>
requestVars == <<requests, hrefs, toasts>>
\* ProfileImagePicker
VARIABLES
    currentImageUrl,      \* the prop
    isOpen, selectedImage, aiPrompt, isGenerating, isUploading,   \* useState
    uploadsInFlight,      \* fetches of the upload endpoint not yet settled
    generationsInFlight,  \* fetches of the generation endpoint not yet settled
    invocations,          \* calls of handleFileUpload and handleAIGenerate so far
    uploadsSent,          \* fetches of the upload endpoint issued
    generationsSent,      \* fetches of the generation endpoint issued
    errorToasts,          \* toast.error calls of the picker
    successToasts,        \* toast.success calls of the picker
    changes               \* arguments of the onImageChange calls, in order

pickerState == <<isOpen, selectedImage, aiPrompt, isGenerating, isUploading>>
pickerEffects == <<uploadsInFlight, generationsInFlight, invocations, uploadsSent,
                   generationsSent, errorToasts, successToasts, changes>>
pickerVars == <<currentImageUrl, pickerState, pickerEffects>>

\* AppProfilesPage
VARIABLES
    flag,             \* what useFeatureFlag("custom_agents") returns
    flagChanges,      \* changes of flag so far
    profilesView,     \* "none" before the first render, then the branch rendered
    profilesDeps,     \* dependency values of the effect's last run
    replaces,         \* router.replace calls, in order
    profilesPage      \* "mounted" | "left"

profilesVars == <<flag, flagChanges, profilesView, profilesDeps, replaces, profilesPage>>

\* State that no action of ActivateTrialPage changes.
fixedVars == <<origin, pickerVars, profilesVars>>
pageVars == <<queryVars, renderVars, page, pushes, requestVars, origin, profilesVars>>
vars == <<queryVars, renderVars, page, pushes, requestVars, fixedVars>>

\* ------------------------------------------------------------- query hooks
subscription == query["subscription"].data
trialStatus == query["trial"].data
isLoadingSubscription == query["subscription"].status = "pending"
isLoadingTrial == query["trial"].status = "pending"

\* ----------------------------------------------------------- gate resolver
hasActiveTrial(t) == t.has_trial /\ t.trial_status = "active"

hasUsedTrial_withoutConverted(t) ==
    \/ t.trial_status = "used"
    \/ t.trial_status = "expired"
    \/ t.trial_status = "cancelled"

hasUsedTrial(t) ==
    \/ t.trial_status = "used"
    \/ t.trial_status = "expired"
    \/ t.trial_status = "cancelled"
    \/ t.trial_status = "converted"

hasActiveSubscription_freeIsPaid(s) ==
    /\ s.tier # NullTier
    /\ s.tier # "none"

hasActiveSubscription(s) ==
    /\ s.tier # NullTier
    /\ s.tier # "none"
    /\ s.tier # "free"

GateTarget_usedTrialFirst(s, t) ==
    IF hasUsedTrial(t) THEN "/subscription"
    ELSE IF hasActiveTrial(t) \/ hasActiveSubscription(s) THEN "/dashboard"
    ELSE ""

\* The if / else-if of the effect body: the route pushed, or "" when none is.
GateTarget(s, t) ==
    IF hasActiveTrial(t) \/ hasActiveSubscription(s) THEN "/dashboard"
    ELSE IF hasUsedTrial(t) THEN "/subscription"
    ELSE ""

\* Guard of the effect body.
GateGuard ==
    /\ ~isLoadingSubscription
    /\ ~isLoadingTrial
    /\ subscription # Undefined
    /\ trialStatus # Undefined

\* Dependency array of the effect; objects are compared by reference (ref). The
\* router object is the same on every render and is left out.
Deps == <<subscription, query["subscription"].ref, trialStatus, query["trial"].ref,
          isLoadingSubscription, isLoadingTrial>>

EffectShouldRun_everyRender == TRUE

EffectShouldRun_loadingFlagsOnly ==
    \/ lastDeps = <<>>
    \/ <<isLoadingSubscription, isLoadingTrial>> # <<lastDeps[5], lastDeps[6]>>

\* React runs the effect after a render whose dependency array differs.
EffectShouldRun == Deps # lastDeps

isLoading_bothPending == isLoadingSubscription /\ isLoadingTrial

isLoading == isLoadingSubscription \/ isLoadingTrial

\* --------------------------------------------------------- start-trial hook
Origin == "https://app"
Origins == {Origin, "https://staging.app"}
FallbackMessage == "Failed to start trial. Please try again."
CheckoutUrls == {UndefinedString, "", "https://pay.example/abc"}
ErrorMessages == {UndefinedString, "", "Trial already used"}

InFlight == {i \in DOMAIN requests : requests[i].state = "inflight"}

\* startTrialMutation.isPending: the observer follows the latest mutation.
isPending == requests # <<>> /\ requests[Len(requests)].state = "inflight"

ButtonDisabled_afterFirstAttempt == requests # <<>>

\* disabled={startTrialMutation.isPending} of the Start button.
ButtonDisabled == isPending

ActivationRequest_fixedHost ==
    [success_url |-> Origin \o "/dashboard?trial=started",
     cancel_url |-> Origin \o "/activate-trial"]

\* The request body built by handleStartTrial.
ActivationRequest ==
    [success_url |-> origin \o "/dashboard?trial=started",
     cancel_url |-> origin \o "/activate-trial"]

ToastText_nullish(message) == IF message # UndefinedString THEN message ELSE FallbackMessage

\* error?.message || fallback
ToastText(message) == IF Truthy(message) THEN message ELSE FallbackMessage

HrefsOnResolve_successUrl(i, url) ==
    IF Truthy(url) THEN <<[req |-> i, url |-> ActivationRequest.success_url]>> ELSE <<>>

\* window.location.href assignments of the try branch, given result.checkout_url.
HrefsOnResolve(i, url) ==
    IF Truthy(url) THEN <<[req |-> i, url |-> url]>> ELSE <<>>

\* toast.error calls of the try branch, given result.checkout_url.
ToastsOnResolve(i, url) == <<>>

\* toast.error calls of the catch branch, given error?.message.
ToastsOnReject(i, message) == <<[req |-> i, message |-> ToastText(message)]>>

\* ------------------------------------------------------------------- state
NoDeps == <<>>

\* ActivateTrialPage before its first render.
PageInit ==
    /\ query \in [QueryNames -> [status : {"pending"}, data : {Undefined}, ref : {0}]]
    /\ revalidations = 0
    /\ view = "none"
    /\ buttonDisabled = FALSE
    /\ lastDeps = NoDeps
    /\ rerendered = FALSE
    /\ page = "mounted"
    /\ pushes = <<>>
    /\ requests = <<>>
    /\ hrefs = <<>>
    /\ toasts = <<>>

\* --------------------------------------------------------- AppProfilesPage
\* { enabled, loading } of useFeatureFlag.
FlagValues == [enabled : BOOLEAN, loading : BOOLEAN]
FlagLoading == [enabled |-> FALSE, loading |-> TRUE]
customAgentsEnabled == flag.enabled
flagLoading == flag.loading

ReplaceDue_ignoresLoading(loading, enabled) == ~enabled

\* if (!flagLoading && !customAgentsEnabled)
ReplaceDue(loading, enabled) == ~loading /\ ~enabled

\* The effect's body: its router.replace calls.
ProfilesEffect ==
    IF ReplaceDue(flagLoading, customAgentsEnabled)
    THEN <<[method |-> "replace", target |-> "/dashboard"]>>
    ELSE <<>>

\* [flagLoading, customAgentsEnabled, router], router being stable.
ProfilesDeps == <<flagLoading, customAgentsEnabled>>

\* The branch of the component's return.
ProfilesView ==
    IF flagLoading THEN "skeleton"
    ELSE IF ~customAgentsEnabled THEN "null"
    ELSE "content"

ProfilesInit(f) ==
    /\ flag = f
    /\ flagChanges = 0
    /\ profilesView = "none"
    /\ profilesDeps = NoDeps
    /\ replaces = <<>>
    /\ profilesPage = "mounted"

\* useFeatureFlag returns another value.
FlagChanges(f) ==
    /\ profilesPage = "mounted"
    /\ flagChanges < MaxFlagChanges
    /\ f # flag
    /\ flag' = f
    /\ flagChanges' = flagChanges + 1
    /\ UNCHANGED <<profilesView, profilesDeps, replaces, profilesPage>>
    /\ UNCHANGED <<queryVars, renderVars, page, pushes, requestVars, origin, pickerVars>>

\* One render of AppProfilesPage and the effect after it.
ProfilesRender ==
    /\ profilesPage = "mounted"
    /\ profilesView' = ProfilesView
    /\ IF ProfilesDeps # profilesDeps
       THEN /\ profilesDeps' = ProfilesDeps
            /\ replaces' = replaces \o ProfilesEffect
       ELSE UNCHANGED <<profilesDeps, replaces>>
    /\ UNCHANGED <<flag, flagChanges, profilesPage>>
    /\ UNCHANGED <<queryVars, renderVars, page, pushes, requestVars, origin, pickerVars>>

\* The router carries out a replace: the page is unmounted.
ProfilesRouteChange ==
    /\ profilesPage = "mounted"
    /\ replaces # <<>>
    /\ profilesPage' = "left"
    /\ UNCHANGED <<flag, flagChanges, profilesView, profilesDeps, replaces>>
    /\ UNCHANGED <<queryVars, renderVars, page, pushes, requestVars, origin, pickerVars>>

ProfilesNext ==
    \/ \E f \in FlagValues : FlagChanges(f)
    \/ ProfilesRender
    \/ ProfilesRouteChange

\* ------------------------------------------------------ ProfileImagePicker
NullImage == "<null>"
\* file.type and aiPrompt are sequences of characters.
ImagePrefix == <<"i", "m", "a", "g", "e", "/">>
FileTypes ==
    {ImagePrefix \o <<"p", "n", "g">>,
     ImagePrefix,
     <<"t", "e", "x", "t", "/", "p", "n", "g">>,
     <<"x">> \o ImagePrefix,
     <<"i", "m", "a", "g", "e">>,
     <<>>}
MaxImageBytes == 5 * 1024 * 1024
FileSizes == {0, MaxImageBytes - 1, MaxImageBytes, MaxImageBytes + 1}
Files == [type : FileTypes, size : FileSizes]
Prompts == {<<>>, <<" ">>, <<"a">>, <<" ", "a", " ">>}
ImageProps == {UndefinedString, "", "https://img/current"}
UploadedUrls == {"https://img/uploaded"}
GeneratedUrls == {"https://img/generated"}
\* How a fetch ends: response.ok, !response.ok, or a rejected promise.
Outcomes == {"ok", "not_ok", "network_error"}

\* String.prototype.startsWith
StartsWith(str, prefix) ==
    Len(str) >= Len(prefix) /\ SubSeq(str, 1, Len(prefix)) = prefix

\* String.prototype.trim, for the space character.
RECURSIVE TrimStart(_)
TrimStart(str) ==
    IF str # <<>> /\ Head(str) = " " THEN TrimStart(Tail(str)) ELSE str
RECURSIVE TrimEnd(_)
TrimEnd(str) ==
    IF str # <<>> /\ str[Len(str)] = " " THEN TrimEnd(SubSeq(str, 1, Len(str) - 1)) ELSE str
Trim(str) == TrimEnd(TrimStart(str))

\* currentImageUrl || null
OrNull(u) == IF Truthy(u) THEN u ELSE NullImage

\* !file.type.startsWith('image/') is false
FileTypeAccepted(f) == StartsWith(f.type, ImagePrefix)

FileSizeAccepted_exclusive(f) == f.size < MaxImageBytes

\* file.size > 5 * 1024 * 1024 is false
FileSizeAccepted(f) == ~(f.size > MaxImageBytes)

PromptAccepted_untrimmed(prompt) == prompt # <<>>

\* !aiPrompt.trim() is false
PromptAccepted(prompt) == Trim(prompt) # <<>>

IsUploadingAfter_noFinally(ok) == ~ok

\* setIsUploading(false) of the finally block.
IsUploadingAfter(ok) == FALSE

\* setIsGenerating(false) of the finally block.
IsGeneratingAfter(ok) == FALSE

ChangesOnRemove_applies == <<NullImage>>

\* onImageChange calls of handleRemove: none.
ChangesOnRemove == <<>>

\* The picker as mounted with prop u.
PickerInit(u) ==
    /\ currentImageUrl = u
    /\ isOpen = FALSE
    /\ selectedImage = OrNull(u)
    /\ aiPrompt = <<>>
    /\ isGenerating = FALSE
    /\ isUploading = FALSE
    /\ uploadsInFlight = 0
    /\ generationsInFlight = 0
    /\ invocations = 0
    /\ uploadsSent = 0
    /\ generationsSent = 0
    /\ errorToasts = 0
    /\ successToasts = 0
    /\ changes = <<>>

\* Popover onOpenChange.
SetIsOpen(b) ==
    /\ isOpen' = b
    /\ UNCHANGED <<selectedImage, aiPrompt, isGenerating, isUploading,
                   currentImageUrl, pickerEffects, pageVars>>

\* Input onChange.
SetAiPrompt(prompt) ==
    /\ aiPrompt' = prompt
    /\ UNCHANGED <<isOpen, selectedImage, isGenerating, isUploading,
                   currentImageUrl, pickerEffects, pageVars>>

\* The parent passes another currentImageUrl: the effect copies it.
PropChanges(u) ==
    /\ u # currentImageUrl
    /\ currentImageUrl' = u
    /\ selectedImage' = OrNull(u)
    /\ UNCHANGED <<isOpen, aiPrompt, isGenerating, isUploading, pickerEffects, pageVars>>

\* handleFileUpload up to its await.
HandleFileUpload(f) ==
    /\ invocations < MaxInvocations
    /\ invocations' = invocations + 1
    /\ IF ~FileTypeAccepted(f) \/ ~FileSizeAccepted(f)
       THEN /\ errorToasts' = errorToasts + 1
            /\ UNCHANGED <<isUploading, uploadsSent, uploadsInFlight>>
       ELSE /\ isUploading' = TRUE
            /\ uploadsSent' = uploadsSent + 1
            /\ uploadsInFlight' = uploadsInFlight + 1
            /\ UNCHANGED errorToasts
    /\ UNCHANGED <<isOpen, selectedImage, aiPrompt, isGenerating, currentImageUrl,
                   generationsInFlight, generationsSent, successToasts, changes, pageVars>>

\* handleFileUpload after its await: try, catch and finally.
UploadSettles(outcome) ==
    /\ uploadsInFlight > 0
    /\ uploadsInFlight' = uploadsInFlight - 1
    /\ IF outcome = "ok"
       THEN /\ \E url \in UploadedUrls : selectedImage' = url
            /\ successToasts' = successToasts + 1
            /\ UNCHANGED errorToasts
       ELSE /\ errorToasts' = errorToasts + 1
            /\ UNCHANGED <<selectedImage, successToasts>>
    /\ isUploading' = IsUploadingAfter(outcome = "ok")
    /\ UNCHANGED <<isOpen, aiPrompt, isGenerating, currentImageUrl, generationsInFlight,
                   invocations, uploadsSent, generationsSent, changes, pageVars>>

\* handleAIGenerate up to its await.
HandleAIGenerate ==
    /\ invocations < MaxInvocations
    /\ invocations' = invocations + 1
    /\ IF ~PromptAccepted(aiPrompt)
       THEN /\ errorToasts' = errorToasts + 1
            /\ UNCHANGED <<isGenerating, generationsSent, generationsInFlight>>
       ELSE /\ isGenerating' = TRUE
            /\ generationsSent' = generationsSent + 1
            /\ generationsInFlight' = generationsInFlight + 1
            /\ UNCHANGED errorToasts
    /\ UNCHANGED <<isOpen, selectedImage, aiPrompt, isUploading, currentImageUrl,
                   uploadsInFlight, uploadsSent, successToasts, changes, pageVars>>

\* handleAIGenerate after its await: try, catch and finally.
GenerationSettles(outcome) ==
    /\ generationsInFlight > 0
    /\ generationsInFlight' = generationsInFlight - 1
    /\ IF outcome = "ok"
       THEN /\ \E url \in GeneratedUrls : selectedImage' = url
            /\ successToasts' = successToasts + 1
            /\ aiPrompt' = <<>>
            /\ UNCHANGED errorToasts
       ELSE /\ errorToasts' = errorToasts + 1
            /\ UNCHANGED <<selectedImage, successToasts, aiPrompt>>
    /\ isGenerating' = IsGeneratingAfter(outcome = "ok")
    /\ UNCHANGED <<isOpen, isUploading, currentImageUrl, uploadsInFlight,
                   invocations, uploadsSent, generationsSent, changes, pageVars>>

\* Apply.
HandleSubmit ==
    /\ Len(changes) < MaxApplies
    /\ changes' = Append(changes, selectedImage)
    /\ isOpen' = FALSE
    /\ UNCHANGED <<selectedImage, aiPrompt, isGenerating, isUploading, currentImageUrl,
                   uploadsInFlight, generationsInFlight, invocations, uploadsSent,
                   generationsSent, errorToasts, successToasts, pageVars>>

\* The remove button of the preview.
HandleRemove ==
    /\ selectedImage' = NullImage
    /\ changes' = changes \o ChangesOnRemove
    /\ UNCHANGED <<isOpen, aiPrompt, isGenerating, isUploading, currentImageUrl,
                   uploadsInFlight, generationsInFlight, invocations, uploadsSent,
                   generationsSent, errorToasts, successToasts, pageVars>>

\* Reset.
HandleReset ==
    /\ selectedImage' = OrNull(currentImageUrl)
    /\ aiPrompt' = <<>>
    /\ UNCHANGED <<isOpen, isGenerating, isUploading, currentImageUrl,
                   pickerEffects, pageVars>>

\* The handlers of the picker, called as functions: the disabled attributes of
\* the buttons are not applied, the handlers carry their own checks.
PickerNext ==
    \/ \E b \in BOOLEAN : SetIsOpen(b)
    \/ \E prompt \in Prompts : SetAiPrompt(prompt)
    \/ \E u \in ImageProps : PropChanges(u)
    \/ \E f \in Files : HandleFileUpload(f)
    \/ \E outcome \in Outcomes : UploadSettles(outcome)
    \/ HandleAIGenerate
    \/ \E outcome \in Outcomes : GenerationSettles(outcome)
    \/ HandleSubmit
    \/ HandleRemove
    \/ HandleReset

PickerSpecInit ==
    /\ PageInit
    /\ origin = Origin
    /\ ProfilesInit(FlagLoading)
    /\ \E u \in ImageProps : PickerInit(u)

SpecPicker == PickerSpecInit /\ [][PickerNext]_vars

ProfilesSpecInit ==
    /\ PageInit
    /\ origin = Origin
    /\ PickerInit(UndefinedString)
    /\ \E f \in FlagValues : ProfilesInit(f)

SpecProfiles == ProfilesSpecInit /\ [][ProfilesNext]_vars

Init ==
    /\ PageInit
    /\ origin = Origin
    /\ PickerInit(UndefinedString)
    /\ ProfilesInit(FlagLoading)

\* ----------------------------------------------------------- query layer
\* A pending query settles with data.
QuerySucceeds(q, S) ==
    /\ page = "mounted"
    /\ query[q].status = "pending"
    /\ \E d \in S :
         query' = [query EXCEPT ![q] = [status |-> "success", data |-> d, ref |-> 1]]
    /\ UNCHANGED <<revalidations, renderVars, page, pushes, requestVars, fixedVars>>

\* A pending query settles in the error state: no data.
QueryFails(q) ==
    /\ page = "mounted"
    /\ query[q].status = "pending"
    /\ query' = [query EXCEPT ![q] = [status |-> "error", data |-> Undefined, ref |-> 0]]
    /\ UNCHANGED <<revalidations, renderVars, page, pushes, requestVars, fixedVars>>

\* A refetch of a settled query delivers data; data equal to the held data keeps
\* its reference (structural sharing), other data is a new object.
QueryRevalidates(q, S) ==
    /\ page = "mounted"
    /\ query[q].status # "pending"
    /\ \E d \in S :
         IF d = query[q].data
         THEN UNCHANGED queryVars
         ELSE /\ revalidations < MaxRevalidations
              /\ revalidations' = revalidations + 1
              /\ query' = [query EXCEPT ![q] = [status |-> "success", data |-> d,
                                                ref |-> query[q].ref + 1]]
    /\ UNCHANGED <<renderVars, page, pushes, requestVars, fixedVars>>

\* ------------------------------------------------------------------ render
\* The body of the gate effect: the router.push calls it makes.
GateEffect ==
    IF GateGuard /\ GateTarget(subscription, trialStatus) # ""
    THEN <<[target |-> GateTarget(subscription, trialStatus),
            subscription |-> subscription, trialStatus |-> trialStatus,
            refs |-> <<query["subscription"].ref, query["trial"].ref>>]>>
    ELSE <<>>

\* One render of ActivateTrialPage followed by its effects.
Render ==
    /\ page = "mounted"
    /\ view' = IF isLoading THEN "skeleton" ELSE "offer"
    /\ buttonDisabled' = ButtonDisabled
    /\ IF EffectShouldRun
       THEN /\ lastDeps' = Deps
            /\ rerendered' = FALSE
            /\ pushes' = pushes \o GateEffect
       ELSE /\ rerendered' = TRUE
            /\ UNCHANGED <<lastDeps, pushes>>
    /\ UNCHANGED <<queryVars, page, requestVars, fixedVars>>

\* The router completes a pushed transition: the page unmounts.
RouteChange ==
    /\ page = "mounted"
    /\ pushes # <<>>
    /\ page' = "left"
    /\ UNCHANGED <<queryVars, renderVars, pushes, requestVars, fixedVars>>

\* The browser replaces the document after window.location.href was assigned.
Unload ==
    /\ page # "unloaded"
    /\ hrefs # <<>>
    /\ page' = "unloaded"
    /\ UNCHANGED <<queryVars, renderVars, pushes, requestVars, fixedVars>>

\* -------------------------------------------------------- handleStartTrial
\* Click on the Start button: handleStartTrial up to its await.
StartTrialClick ==
    /\ page = "mounted"
    /\ view = "offer"
    /\ ~buttonDisabled
    /\ Len(requests) < MaxRequests
    /\ requests' = Append(requests, [state |-> "inflight", body |-> ActivationRequest,
                                     result |-> UndefinedString])
    /\ UNCHANGED <<queryVars, renderVars, page, pushes, hrefs, toasts, fixedVars>>

\* The request resolves: handleStartTrial after its await, try branch.
StartTrialResolves(i) ==
    /\ page # "unloaded"
    /\ i \in InFlight
    /\ \E url \in CheckoutUrls :
         /\ requests' = [requests EXCEPT ![i] = [@ EXCEPT !.state = "resolved", !.result = url]]
         /\ hrefs' = hrefs \o HrefsOnResolve(i, url)
         /\ toasts' = toasts \o ToastsOnResolve(i, url)
    /\ UNCHANGED <<queryVars, renderVars, page, pushes, fixedVars>>

\* The request rejects: handleStartTrial after its await, catch branch.
StartTrialRejects(i) ==
    /\ page # "unloaded"
    /\ i \in InFlight
    /\ \E message \in ErrorMessages :
         /\ requests' = [requests EXCEPT ![i] = [@ EXCEPT !.state = "rejected", !.result = message]]
         /\ toasts' = toasts \o ToastsOnReject(i, message)
    /\ UNCHANGED <<queryVars, renderVars, page, pushes, hrefs, fixedVars>>

\* The gate alone, over every snapshot.
GateNext ==
    \/ \E q \in QueryNames : QuerySucceeds(q, Snapshots(q))
    \/ \E q \in QueryNames : QueryFails(q)
    \/ \E q \in QueryNames : QueryRevalidates(q, Snapshots(q))
    \/ Render
    \/ RouteChange

SpecGate == Init /\ [][GateNext]_vars

\* React renders again after every change of hook state, and runs the effect.
SpecGateFair == SpecGate /\ WF_vars(Render)

\* The whole page, over the sample accounts.
Next ==
    \/ \E q \in QueryNames : QuerySucceeds(q, SampleSnapshots(q))
    \/ \E q \in QueryNames : QueryFails(q)
    \/ \E q \in QueryNames : QueryRevalidates(q, SampleSnapshots(q))
    \/ Render
    \/ RouteChange
    \/ Unload
    \/ StartTrialClick
    \/ \E i \in 1..MaxRequests : StartTrialResolves(i)
    \/ \E i \in 1..MaxRequests : StartTrialRejects(i)

Spec == Init /\ [][Next]_vars

\* The start-trial handler for an eligible account, served from either origin.
ActivationInit ==
    /\ PageInit
    /\ origin \in Origins
    /\ PickerInit(UndefinedString)
    /\ ProfilesInit(FlagLoading)

ActivationNext ==
    \/ \E q \in QueryNames : QuerySucceeds(q, OfferSnapshots(q))
    \/ Render
    \/ Unload
    \/ StartTrialClick
    \/ \E i \in 1..MaxRequests : StartTrialResolves(i)
    \/ \E i \in 1..MaxRequests : StartTrialRejects(i)

SpecActivation == ActivationInit /\ [][ActivationNext]_vars

\* ================================================================== claims
\* The data model of the specification, section 3.
Settled(q) == query[q].status # "pending"
Loaded(q) == query[q].status = "success"
Failed(q) == query[q].status = "error"
Entitled(s) == s.tier \notin {NullTier, "none", "free"}
ActiveTrial(t) == t.has_trial = TRUE /\ t.trial_status = "active"
ExhaustedTrial(t) == t.trial_status \in {"used", "expired", "cancelled", "converted"}

\* The first-match precedence of section 4.1.
Precedence(s, t) ==
    IF ActiveTrial(t) THEN "RedirectToDashboard"
    ELSE IF Entitled(s) THEN "RedirectToDashboard"
    ELSE IF ExhaustedTrial(t) THEN "RedirectToSubscription"
    ELSE "OfferTrial"

RouteOf(decision) ==
    IF decision = "RedirectToDashboard" THEN "/dashboard"
    ELSE IF decision = "RedirectToSubscription" THEN "/subscription"
    ELSE ""

\* The resolver has evaluated the inputs the queries hold now.
Evaluated == lastDeps = Deps
CurrentRefs == <<query["subscription"].ref, query["trial"].ref>>
\* The gate navigations issued for the inputs the queries hold now.
CurrentPushes == {i \in DOMAIN pushes : pushes[i].refs = CurrentRefs}
\* The Start button is rendered and enabled.
OfferActionable == page = "mounted" /\ view = "offer" /\ ~buttonDisabled

HrefsOf(i) == {k \in DOMAIN hrefs : hrefs[k].req = i}
ToastsOf(i) == {k \in DOMAIN toasts : toasts[k].req = i}

\* C1: while at least one of the two queries is pending, no gate navigation has
\* been issued and the trial offer is not rendered, whichever query settled first.
C1_LoadingWhilePending ==
    (~Settled("subscription") \/ ~Settled("trial")) => (pushes = <<>> /\ view # "offer")

\* One query has settled with a value that alone would redirect, the other is
\* pending, and the page has rendered and run its effect on that.
C1_Witness ==
    /\ Loaded("subscription") /\ Entitled(subscription) /\ ~Settled("trial")
    /\ Evaluated /\ view = "skeleton"

\* C2: once both queries have settled with data and the resolver has evaluated
\* them, what the page did is the first-match precedence of (subscription, trial):
\* a redirect decision has its route pushed (and only that route), and OfferTrial
\* has no route pushed and the offer rendered.
C2_Precedence ==
    (Loaded("subscription") /\ Loaded("trial") /\ Evaluated) =>
        LET decision == Precedence(subscription, trialStatus) IN
        IF decision = "OfferTrial"
        THEN CurrentPushes = {} /\ view = "offer"
        ELSE /\ CurrentPushes # {}
             /\ \A i \in CurrentPushes : pushes[i].target = RouteOf(decision)

\* A converted trial without a record and a free tier: rule 3 sent the account to
\* /subscription.
C2_Witness ==
    /\ Loaded("subscription") /\ Loaded("trial") /\ Evaluated
    /\ subscription.tier = "free"
    /\ trialStatus = [has_trial |-> FALSE, trial_status |-> "converted"]
    /\ \E i \in CurrentPushes : pushes[i].target = "/subscription"

\* C3: every gate navigation issued for an account that is entitled or has an
\* active trial targets /dashboard, never /subscription, whatever its trial status.
C3_EntitledNeverToSubscription ==
    \A i \in DOMAIN pushes :
        (Entitled(pushes[i].subscription) \/ ActiveTrial(pushes[i].trialStatus))
            => pushes[i].target = "/dashboard"

\* A paid account whose trial has expired was navigated, to /dashboard.
C3_Witness ==
    \E i \in DOMAIN pushes :
        /\ Entitled(pushes[i].subscription)
        /\ pushes[i].trialStatus.trial_status = "expired"
        /\ pushes[i].target = "/dashboard"

\* C4: at most one Start Trial request is in flight at any time.
C4_SingleFlight == Cardinality(InFlight) <= 1

C6_MalformedSuccessIsFailure ==
    \A i \in DOMAIN requests :
        (requests[i].state = "resolved" /\ requests[i].result \in {UndefinedString, ""})
            => (HrefsOf(i) = {} /\ Cardinality(ToastsOf(i)) = 1)

\* C7: a Start Trial success with a non-empty checkout_url performs exactly one
\* full-page navigation, to that URL, and shows no notification for the attempt.
C7_CheckoutNavigation ==
    \A i \in DOMAIN requests :
        (requests[i].state = "resolved" /\ requests[i].result \notin {UndefinedString, ""})
            => /\ Cardinality(HrefsOf(i)) = 1
               /\ \A k \in HrefsOf(i) : hrefs[k].url = requests[i].result
               /\ ToastsOf(i) = {}

\* A request resolved with a checkout URL.
C7_Witness ==
    \E i \in DOMAIN requests :
        requests[i].state = "resolved" /\ requests[i].result = "https://pay.example/abc"

\* C8: when either query has settled in the error state the trial offer is not
\* rendered and no Start Trial request has been issued.
C8_NoOfferOnQueryError ==
    (Failed("subscription") \/ Failed("trial")) =>
        (~(page = "mounted" /\ view = "offer") /\ requests = <<>>)

\* C9: for an account whose settled snapshots yield a redirect decision the trial
\* offer is never actionable and no Start Trial request is sent.
C9_OfferOnlyWhenOfferTrial ==
    (/\ Loaded("subscription") /\ Loaded("trial")
     /\ Precedence(subscription, trialStatus) # "OfferTrial")
        => (~OfferActionable /\ InFlight = {})

\* C10: a failed Start Trial request shows exactly one notification, whose text is
\* the server's message when that is present and non-empty, the fallback otherwise.
C10_FailureNotification ==
    \A i \in DOMAIN requests :
        requests[i].state = "rejected"
            => /\ Cardinality(ToastsOf(i)) = 1
               /\ \A k \in ToastsOf(i) :
                    toasts[k].message =
                        IF requests[i].result \in {UndefinedString, ""}
                        THEN "Failed to start trial. Please try again."
                        ELSE requests[i].result

\* One request failed with a server message and another with an empty one.
C10_Witness ==
    \E i, j \in DOMAIN requests :
        /\ requests[i].state = "rejected" /\ requests[i].result = "Trial already used"
        /\ requests[j].state = "rejected" /\ requests[j].result = ""

\* The latest Start Trial request has failed.
LatestRejected == requests # <<>> /\ requests[Len(requests)].state = "rejected"

\* C11: the step that delivers a Start Trial failure performs no navigation and
\* leaves the gate (queries, pushes, rendered offer, page) as it was; and a render
\* that follows the failure of the latest request shows the offer with the Start
\* button enabled, so that the next click issues a new request.
C11_FailedAttemptRetryable ==
    /\ [][(\E i \in DOMAIN requests :
              requests[i].state = "inflight" /\ requests'[i].state = "rejected")
            => /\ hrefs' = hrefs /\ pushes' = pushes
               /\ query' = query /\ view' = view /\ page' = page]_vars
    /\ [][(Render /\ LatestRejected)
            => (page' = "mounted" /\ view' = "offer" /\ ~buttonDisabled')]_vars

\* An attempt failed, its notification was shown, and the page has rendered the
\* pending state and then the enabled button again.
C11_Witness ==
    /\ Len(requests) = 1 /\ LatestRejected /\ Len(toasts) = 1
    /\ OfferActionable /\ hrefs = <<>> /\ rerendered

\* A redirect is due: the mounted page holds two loaded snapshots whose decision is
\* a redirect, and no navigation to its route has been issued for them.
RedirectDue ==
    /\ page = "mounted" /\ Loaded("subscription") /\ Loaded("trial")
    /\ Precedence(subscription, trialStatus) # "OfferTrial"
    /\ ~\E i \in CurrentPushes :
          pushes[i].target = RouteOf(Precedence(subscription, trialStatus))

\* C12: a redirect that is due is eventually issued (or the snapshots change to
\* ones for which none is due); every navigation issued targets the route of the
\* decision of the snapshots it was issued for; and while the loaded snapshots
\* decide OfferTrial no gate navigation is issued for them.
C12_RedirectEventuallyIssued ==
    /\ RedirectDue ~> ~RedirectDue
    /\ [](\A i \in DOMAIN pushes :
            pushes[i].target =
                RouteOf(Precedence(pushes[i].subscription, pushes[i].trialStatus)))
    /\ []((Loaded("subscription") /\ Loaded("trial")
           /\ Precedence(subscription, trialStatus) = "OfferTrial")
              => CurrentPushes = {})

\* Both routes have been issued in one run: /subscription for an exhausted trial,
\* then /dashboard after the subscription became paid.
C12_Witness ==
    /\ Len(pushes) = 2
    /\ pushes[1].target = "/subscription"
    /\ pushes[2].target = "/dashboard"

\* C13: once the page has been left by a gate navigation, the arrival of a Start
\* Trial result causes no navigation to the checkout URL and no notification.
C13_ResultDiscardedAfterLeaving ==
    [][page = "left" => (hrefs' = hrefs /\ toasts' = toasts)]_vars

\* The two callback URLs of section 4.2, for each origin.
ExpectedUrls(o) ==
    IF o = "https://app"
    THEN [success_url |-> "https://app/dashboard?trial=started",
          cancel_url |-> "https://app/activate-trial"]
    ELSE [success_url |-> "https://staging.app/dashboard?trial=started",
          cancel_url |-> "https://staging.app/activate-trial"]

\* C14: every Start Trial request issued carries success_url = origin +
\* "/dashboard?trial=started" and cancel_url = origin + "/activate-trial", for the
\* origin the page is served from; neither URL is missing.
C14_RequestCarriesBothUrls ==
    \A i \in DOMAIN requests :
        /\ requests[i].body = ExpectedUrls(origin)
        /\ requests[i].body.success_url \notin {UndefinedString, ""}
        /\ requests[i].body.cancel_url \notin {UndefinedString, ""}

\* Two requests were issued from the second origin.
C14_Witness ==
    /\ origin = "https://staging.app"
    /\ Len(requests) = 2

\* C15: the decision follows the current snapshots: a render of the page that
\* shows the offer while the loaded snapshots now decide a redirect not yet issued
\* for them issues exactly that navigation, and under fair rendering it is issued.
C15_DecisionFollowsSnapshots ==
    /\ [][(Render /\ view = "offer" /\ RedirectDue /\ CurrentPushes = {})
            => /\ Len(pushes') = Len(pushes) + 1
               /\ pushes'[Len(pushes')].target =
                      RouteOf(Precedence(subscription, trialStatus))
               /\ pushes'[Len(pushes')].refs = CurrentRefs]_vars
    /\ (view = "offer" /\ RedirectDue) ~> ~RedirectDue

\* The first navigation of the run was issued for a subscription that a
\* revalidation had changed to a paid plan, the trial never having been used.
C15_Witness ==
    /\ Len(pushes) = 1
    /\ pushes[1].refs = <<2, 1>>
    /\ pushes[1].subscription.tier = "pro"
    /\ pushes[1].trialStatus = [has_trial |-> FALSE, trial_status |-> UndefinedString]
    /\ pushes[1].target = "/dashboard"


\* -------------------------------------------------- ProfileImagePicker claims
\* The steps in which an attempt ends without an image.
UploadFails == \E outcome \in Outcomes \ {"ok"} : UploadSettles(outcome)
GenerationFails == \E outcome \in Outcomes \ {"ok"} : GenerationSettles(outcome)

\* C16: a failed upload or generation (non-ok response or thrown error) leaves
\* selectedImage unchanged, shows exactly one error notification and no success
\* notification, and sets the attempt's busy flag to false; a successful attempt
\* sets it to false too; hence whenever no attempt of a kind is outstanding the
\* flag of that kind is false: the picker is never stuck busy.
C16_FailureLeavesPickerIdle ==
    /\ [][UploadFails
            => /\ selectedImage' = selectedImage
               /\ errorToasts' = errorToasts + 1
               /\ successToasts' = successToasts
               /\ ~isUploading'
               /\ isGenerating' = isGenerating]_vars
    /\ [][GenerationFails
            => /\ selectedImage' = selectedImage
               /\ errorToasts' = errorToasts + 1
               /\ successToasts' = successToasts
               /\ ~isGenerating'
               /\ isUploading' = isUploading]_vars
    /\ [][UploadSettles("ok") => ~isUploading']_vars
    /\ [][GenerationSettles("ok") => ~isGenerating']_vars
    /\ [](uploadsInFlight = 0 => ~isUploading)
    /\ [](generationsInFlight = 0 => ~isGenerating)

\* An upload and a generation were both sent and both failed: two error
\* notifications, the image still the one of the prop, nothing busy.
C16_Witness ==
    /\ uploadsSent = 1 /\ generationsSent = 1
    /\ uploadsInFlight = 0 /\ generationsInFlight = 0
    /\ errorToasts = 2 /\ successToasts = 0
    /\ currentImageUrl = "https://img/current"
    /\ selectedImage = "https://img/current"
    /\ ~isUploading /\ ~isGenerating

\* The inputs the handlers must turn away.
BadFile(f) ==
    \/ ~(Len(f.type) >= 6 /\ SubSeq(f.type, 1, 6) = <<"i", "m", "a", "g", "e", "/">>)
    \/ f.size > 5 * 1024 * 1024
BlankPrompt == \A i \in DOMAIN aiPrompt : aiPrompt[i] = " "
Rejection ==
    /\ errorToasts' = errorToasts + 1
    /\ successToasts' = successToasts
    /\ uploadsSent' = uploadsSent /\ generationsSent' = generationsSent
    /\ uploadsInFlight' = uploadsInFlight /\ generationsInFlight' = generationsInFlight
    /\ selectedImage' = selectedImage
    /\ isUploading' = isUploading /\ isGenerating' = isGenerating

\* C17: handleFileUpload sends no upload request for a file whose type does not
\* start with "image/" or whose size is above 5*1024*1024 bytes, and sends one
\* for every other file, a file of exactly 5*1024*1024 bytes included;
\* handleAIGenerate sends no request for a prompt that is empty after trimming;
\* each rejection shows exactly one error notification and leaves selectedImage
\* and both busy flags as they were.
C17_InvalidInputRejected ==
    /\ [][\A f \in Files :
            HandleFileUpload(f)
                => IF BadFile(f)
                   THEN Rejection
                   ELSE uploadsSent' = uploadsSent + 1 /\ errorToasts' = errorToasts]_vars
    /\ [][HandleAIGenerate
            => IF BlankPrompt
               THEN Rejection
               ELSE generationsSent' = generationsSent + 1 /\ errorToasts' = errorToasts]_vars

\* Two calls were turned away, the second one handleAIGenerate with a prompt of
\* one space: two error notifications, no request, the image untouched.
C17_Witness ==
    /\ invocations = 2 /\ errorToasts = 2
    /\ uploadsSent = 0 /\ generationsSent = 0
    /\ aiPrompt = <<" ">>
    /\ selectedImage = "https://img/current"
    /\ ~isUploading /\ ~isGenerating

\* C18: onImageChange is called only by Apply, once, with the selectedImage of
\* that moment, and the popover is closed afterwards; upload, generation, Remove
\* and Reset never call it and change nothing but the picker's own state; Reset
\* sets selectedImage to currentImageUrl, or null when that is empty or missing,
\* and clears the prompt.
C18_OnlyApplyReportsImage ==
    /\ [][changes' # changes
            => /\ HandleSubmit
               /\ changes' = Append(changes, selectedImage)
               /\ ~isOpen']_vars
    /\ [][((\E f \in Files : HandleFileUpload(f)) \/ HandleAIGenerate
             \/ (\E outcome \in Outcomes : UploadSettles(outcome) \/ GenerationSettles(outcome))
             \/ HandleRemove \/ HandleReset)
            => /\ changes' = changes
               /\ currentImageUrl' = currentImageUrl
               /\ isOpen' = isOpen]_vars
    /\ [][HandleReset
            => /\ selectedImage' = (IF currentImageUrl \in {UndefinedString, ""}
                                    THEN "<null>" ELSE currentImageUrl)
               /\ aiPrompt' = <<>>]_vars

\* An uploaded image was applied while the prop still held the old one, and the
\* popover is closed.
C18_Witness ==
    /\ changes = <<"https://img/uploaded">>
    /\ currentImageUrl = "https://img/current"
    /\ selectedImage = "https://img/uploaded"
    /\ ~isOpen


\* ----------------------------------------------------- AppProfilesPage claims
ToDashboard == [method |-> "replace", target |-> "/dashboard"]

\* C19: a render of AppProfilesPage with the custom_agents flag loading shows
\* the skeleton and issues no navigation; a render with the flag loaded as
\* disabled shows nothing of the connections content, and a replace-navigation
\* to /dashboard, the only navigation the page ever issues, is issued for it;
\* a render with the flag loaded as enabled issues no navigation.
C19_FlagGate ==
    /\ [][(ProfilesRender /\ flag.loading)
            => (profilesView' = "skeleton" /\ replaces' = replaces)]_vars
    /\ [][(ProfilesRender /\ ~flag.loading /\ ~flag.enabled)
            => /\ profilesView' \notin {"content", "skeleton"}
               /\ IF profilesDeps = <<FALSE, FALSE>>
                  THEN replaces' = replaces
                  ELSE replaces' = Append(replaces, ToDashboard)
               /\ replaces' # <<>>]_vars
    /\ [][(ProfilesRender /\ ~flag.loading /\ flag.enabled)
            => (profilesView' = "content" /\ replaces' = replaces)]_vars
    /\ [](\A i \in DOMAIN replaces : replaces[i] = ToDashboard)

\* The flag went from loading to loaded as disabled: one replace was issued,
\* nothing is shown, and the router has carried the replace out.
C19_Witness ==
    /\ flagChanges = 1
    /\ flag = [enabled |-> FALSE, loading |-> FALSE]
    /\ profilesView = "null"
    /\ replaces = <<ToDashboard>>
    /\ profilesPage = "left"

====
